---- MODULE Spec2Model ----
(***************************************************************************)
(* Margin recovery ("Solving for Hidden Data", LogisticOmit) and the       *)
(* neighbouring notebooks of the Examples repository.                      *)
(*                                                                         *)
(* Real numbers are modelled exactly as rationals over a common            *)
(* denominator: every proportion is an integer number of units 1/den,      *)
(* where den is fixed when the detailed frame is built.  A product of two  *)
(* proportions a/den * b/den is (a*b/den)/den; den is chosen so that the   *)
(* products the pipeline forms are exact.  Logarithms are never            *)
(* approximated: an entropy value is carried as the pair (s, w) that       *)
(* stands for log2(s) - log2(w)/s, and two entropies are compared by       *)
(* comparing exact big integers.                                           *)
(***************************************************************************)
EXTENDS Integers, Sequences, FiniteSets, TLC

(***************************************************************************)
(* Bounds of the model.                                                    *)
(***************************************************************************)
\* largest common denominator of a detailed frame that Init admits
MaxDen == 36
\* the free cell of the rank-deficient solve ranges over -MaxFree..MaxFree
MaxFree == 4
\* MASS::Null returns the null direction at some scale 1..MaxScale
MaxScale == 2
\* candidate null vectors are searched in the box -NullBox..NullBox
NullBox == 1

(***************************************************************************)
(* Keying of the detailed frame: x1 varies fastest, then x2, then y.       *)
(***************************************************************************)
Cells == 1..8
Rows == 1..12

X1(k) == (k - 1) % 2
X2(k) == ((k - 1) \div 2) % 2
Y(k) == (k - 1) \div 4

RECURSIVE SumSeq(_, _)
SumSeq(s, len) == IF len = 0 THEN 0 ELSE s[len] + SumSeq(s, len - 1)

Sum8(s) == SumSeq(s, 8)

Abs(a) == IF a < 0 THEN 0 - a ELSE a

RECURSIVE GCD(_, _)
GCD(a, b) == IF b = 0 THEN Abs(a) ELSE GCD(b, a % b)

RECURSIVE GCDSeq(_, _)
GCDSeq(s, len) == IF len = 0 THEN 0 ELSE GCD(s[len], GCDSeq(s, len - 1))

\* (-1)^e for e in {0, 1}
MinusOnePow(e) == IF e % 2 = 0 THEN 1 ELSE 0 - 1

\* test_vec <- (-1)^x1 * (-1)^x2 * (-1)^y
test_vec == [k \in Cells |-> MinusOnePow(X1(k)) * MinusOnePow(X2(k)) * MinusOnePow(Y(k))]

\* margin_transform without the rows of the unobserved x1 x2 table
margin_transform_observed_only ==
  << <<1, 0, 1, 0, 0, 0, 0, 0>>,
     <<0, 1, 0, 1, 0, 0, 0, 0>>,
     <<0, 0, 0, 0, 1, 0, 1, 0>>,
     <<0, 0, 0, 0, 0, 1, 0, 1>>,
     <<1, 1, 0, 0, 0, 0, 0, 0>>,
     <<0, 0, 1, 1, 0, 0, 0, 0>>,
     <<0, 0, 0, 0, 1, 1, 0, 0>>,
     <<0, 0, 0, 0, 0, 0, 1, 1>>,
     <<0, 0, 0, 0, 0, 0, 0, 0>>,
     <<0, 0, 0, 0, 0, 0, 0, 0>>,
     <<0, 0, 0, 0, 0, 0, 0, 0>>,
     <<0, 0, 0, 0, 0, 0, 0, 0>> >>

\* margin_transform with the rows p(1,*,FALSE) and p(0,*,TRUE) exchanged
margin_transform_rows_swapped ==
  << <<1, 0, 1, 0, 0, 0, 0, 0>>,
     <<0, 0, 0, 0, 1, 0, 1, 0>>,
     <<0, 1, 0, 1, 0, 0, 0, 0>>,
     <<0, 0, 0, 0, 0, 1, 0, 1>>,
     <<1, 1, 0, 0, 0, 0, 0, 0>>,
     <<0, 0, 1, 1, 0, 0, 0, 0>>,
     <<0, 0, 0, 0, 1, 1, 0, 0>>,
     <<0, 0, 0, 0, 0, 0, 1, 1>>,
     <<1, 0, 0, 0, 1, 0, 0, 0>>,
     <<0, 1, 0, 0, 0, 1, 0, 0>>,
     <<0, 0, 1, 0, 0, 0, 1, 0>>,
     <<0, 0, 0, 1, 0, 0, 0, 1>> >>

(***************************************************************************)
(* The linear operator that computes the margins the experimenters see.    *)
(***************************************************************************)
margin_transform ==
  << <<1, 0, 1, 0, 0, 0, 0, 0>>,
     <<0, 1, 0, 1, 0, 0, 0, 0>>,
     <<0, 0, 0, 0, 1, 0, 1, 0>>,
     <<0, 0, 0, 0, 0, 1, 0, 1>>,
     <<1, 1, 0, 0, 0, 0, 0, 0>>,
     <<0, 0, 1, 1, 0, 0, 0, 0>>,
     <<0, 0, 0, 0, 1, 1, 0, 0>>,
     <<0, 0, 0, 0, 0, 0, 1, 1>>,
     <<1, 0, 0, 0, 1, 0, 0, 0>>,
     <<0, 1, 0, 0, 0, 1, 0, 0>>,
     <<0, 0, 1, 0, 0, 0, 1, 0>>,
     <<0, 0, 0, 1, 0, 0, 0, 1>> >>

RECURSIVE Dot(_, _, _)
Dot(a, b, len) == IF len = 0 THEN 0 ELSE a[len] * b[len] + Dot(a, b, len - 1)

\* margin_transform %*% p
Apply(m, p) == [r \in Rows |-> Dot(m[r], p, 8)]

(***************************************************************************)
(* The example data: the detailed frame of an outcome model                *)
(*   P[y == TRUE] ~ sigmoid(c0 + b1*x1 + b2*x2).                           *)
(* A model m gives pX1 and pX2 as pairs <<weight of 0, weight of 1>> and   *)
(* exp(c0), exp(b1), exp(b2) as pairs <<numerator, denominator>>, so that  *)
(* sigmoid(y_linear) = odds / (1 + odds) is rational.  Two further         *)
(* parameters leave the notebook's generating model: dep multiplies the    *)
(* weight of the rows with x1 = x2 (dep = 1: x1, x2 independent) and e12   *)
(* is an x1*x2 interaction factor of the odds (e12 = <<1,1>>: additive).   *)
(***************************************************************************)
Ratios == {<<1, 1>>, <<2, 1>>, <<1, 2>>}

Models ==
  [pX1 : {<<1, 1>>, <<2, 1>>}, pX2 : {<<1, 1>>, <<1, 2>>},
   e0 : Ratios, e1 : Ratios, e2 : Ratios,
   dep : {1, 2}, e12 : {<<1, 1>>, <<2, 1>>}]

IsAdditiveIndependent(m) == m.dep = 1 /\ m.e12 = <<1, 1>>

RECURSIVE IPow(_, _)
IPow(b, e) == IF e = 0 THEN 1 ELSE b * IPow(b, e - 1)

\* x_distribution, as a weight
x_distribution(m, k) ==
  m.pX1[X1(k) + 1] * m.pX2[X2(k) + 1] * (IF X1(k) = X2(k) THEN m.dep ELSE 1)

\* y_linear with a term in x1 * x2 that the parameters do not ask for
OddsNum_interaction(m, k) ==
  m.e0[1] * IPow(m.e1[1], X1(k)) * IPow(m.e2[1], X2(k)) * IPow(2, X1(k) * X2(k))

\* exp(y_linear) = OddsNum / OddsDen
OddsNum(m, k) ==
  m.e0[1] * IPow(m.e1[1], X1(k)) * IPow(m.e2[1], X2(k)) * IPow(m.e12[1], X1(k) * X2(k))

OddsDen(m, k) ==
  m.e0[2] * IPow(m.e1[2], X1(k)) * IPow(m.e2[2], X2(k)) * IPow(m.e12[2], X1(k) * X2(k))

\* the denominator of sigmoid(y_linear) in row k
OddsTot(m, k) == OddsNum(m, k) + OddsDen(m, k)

\* common denominator of the four outcome probabilities
AllTot(m) == OddsTot(m, 1) * OddsTot(m, 2) * OddsTot(m, 3) * OddsTot(m, 4)

\* p_observed_outcome <- ifelse(y, y_probability, 1 - y_probability), over AllTot
p_observed_outcome(m, k) ==
  (IF Y(k) = 1 THEN OddsNum(m, k) ELSE OddsDen(m, k)) * (AllTot(m) \div OddsTot(m, k))

\* proportion <- x_distribution * p_observed_outcome, as weights in lowest terms
RawProportion(m) == [k \in Cells |-> x_distribution(m, k) * p_observed_outcome(m, k)]

Reduced(p) == [k \in Cells |-> p[k] \div GCDSeq(p, 8)]

\* the marginal of x1 and of x2 in a detailed frame
MargX1(p, i) == p[1 + i] + p[3 + i] + p[5 + i] + p[7 + i]
MargX2(p, j) == p[1 + 2 * j] + p[2 + 2 * j] + p[5 + 2 * j] + p[6 + 2 * j]

\* smallest factor that makes the four products of marginals whole units
ScaleOf(p) ==
  LET s == Sum8(p)
      g == GCD(GCD(MargX1(p, 0) * MargX2(p, 0), MargX1(p, 1) * MargX2(p, 0)),
               GCD(GCD(MargX1(p, 0) * MargX2(p, 1), MargX1(p, 1) * MargX2(p, 1)), s))
  IN s \div g

Scaled(p) == [k \in Cells |-> p[k] * ScaleOf(p)]

\* detailed frames outside the logit family: deterministic outcomes
ExtraFrames ==
  { <<1, 0, 0, 0, 0, 0, 0, 1>>,
    <<1, 0, 0, 1, 0, 1, 1, 0>>,
    <<2, 0, 0, 0, 0, 1, 1, 2>>,
    <<0, 1, 1, 0, 1, 0, 0, 1>> }

NoModel == [pX1 |-> <<0, 0>>, pX2 |-> <<0, 0>>, e0 |-> <<0, 0>>, e1 |-> <<0, 0>>,
            e2 |-> <<0, 0>>, dep |-> 0, e12 |-> <<0, 0>>]

VARIABLES
  pc,                     \* position in the notebook
  model,                  \* the parameters the detailed frame was built from
  den,                    \* the common denominator of all proportions
  detailed_frame,         \* detailed_frame$proportion
  margin_frame,           \* margin_transform %*% proportion
  d1, d2,                 \* the two experimenters' views
  dxe,                    \* estimated x1 x2 distribution
  estimated_proportions,
  v,                      \* linear solution
  ns,                     \* null space direction
  recovered_1, recovered_2,
  z_opt, z_den,           \* opt_soln$maximum = z_opt / z_den
  maxent_dist,
  error,                  \* the failure reported to the caller, if any
  M,                      \* margin_transform as the workspace holds it
  previous,               \* what the run before this one returned, if any
  suspended,              \* the workspace of the other forked invocation, if any
  n, count,               \* the integer and the counter of the popcount loop
  start,                  \* the value of n the loop was entered with
  body,                   \* which update the loop body applies: "xor" or "and"
  loop,                   \* position in the popcount function
  f_n,                    \* the argument n of f
  f_a,                    \* the outer loop variable a of f
  f_b,                    \* the inner loop variable b of f
  res,                    \* the running sum of f
  f_pc,                   \* position in f
  x_frame,                \* x_frame
  omitted_frame,          \* omitted_frame
  linear_coef,            \* Euler_constant, pi, e, in this order
  d_pop,                  \* the data frame d, a whole population
  fit_full,               \* lm(y_linear ~ x + omitted)$coef
  fit_x,                  \* lm(y_linear ~ x)$coef
  d_logistic,             \* d split by outcome
  omit_pc                 \* position in the omitted variable notebook

vars == <<pc, model, den, detailed_frame, margin_frame, d1, d2, dxe,
          estimated_proportions, v, ns, recovered_1, recovered_2,
          z_opt, z_den, maxent_dist, error, M, previous, suspended,
          n, count, start, body, loop,
          f_n, f_a, f_b, res, f_pc,
          x_frame, omitted_frame, linear_coef, d_pop, fit_full, fit_x, d_logistic, omit_pc>>

\* the popcount function has not been called
PopcountIdle ==
  /\ n = 0
  /\ count = 0
  /\ start = 0
  /\ body = "none"
  /\ loop = "none"

None == <<>>

sum_loop == <<f_n, f_a, f_b, res, f_pc>>

SumLoopIdle ==
  /\ f_n = 0
  /\ f_a = 0
  /\ f_b = 0
  /\ res = 0
  /\ f_pc = "none"

omit_vars == <<x_frame, omitted_frame, linear_coef, d_pop, fit_full, fit_x, d_logistic, omit_pc>>

OmitIdle ==
  /\ x_frame = None
  /\ omitted_frame = None
  /\ linear_coef = None
  /\ d_pop = None
  /\ fit_full = None
  /\ fit_x = None
  /\ d_logistic = None
  /\ omit_pc = "none"

Init ==
  /\ pc = "start"
  /\ \E m \in Models \cup {NoModel} :
       \E p \in (IF m = NoModel THEN ExtraFrames ELSE {Reduced(RawProportion(m))}) :
         /\ Sum8(Scaled(p)) <= MaxDen
         /\ model = m
         /\ detailed_frame = Scaled(p)
         /\ den = Sum8(Scaled(p))
  /\ margin_frame = None
  /\ d1 = None
  /\ d2 = None
  /\ dxe = None
  /\ estimated_proportions = None
  /\ v = None
  /\ ns = None
  /\ recovered_1 = None
  /\ recovered_2 = None
  /\ z_opt = 0
  /\ z_den = 1
  /\ maxent_dist = None
  /\ error = "none"
  /\ M = margin_transform
  /\ previous = None
  /\ suspended = None
  /\ PopcountIdle
  /\ SumLoopIdle
  /\ OmitIdle

\* proportion <- margin_transform %*% detailed_frame$proportion; d1, d2 selected
Margins ==
  /\ pc = "start"
  /\ margin_frame' = Apply(M, detailed_frame)
  /\ d1' = [i \in 1..4 |-> margin_frame'[i]]
  /\ d2' = [i \in 1..4 |-> margin_frame'[4 + i]]
  /\ pc' = "margins"
  /\ UNCHANGED <<M, previous, suspended, n, count, start, body, loop, sum_loop, omit_vars>>
  /\ UNCHANGED <<model, den, detailed_frame, dxe, estimated_proportions, v, ns,
                 recovered_1, recovered_2, z_opt, z_den, maxent_dist, error>>

\* a product of two proportions, in units 1/den
Mul(a, b) == (a * b) \div den

\* d1a <- aggregate(proportion ~ x1, data = d1, sum): rows of d1 are (x1, y)
d1a(d, i) == d[1 + i] + d[3 + i]

\* dxe left in the order (x1, x2): x2 varies fastest
estimate_joint_xx_unordered(p, q) ==
  [c \in 1..4 |-> Mul(d1a(p, (c - 1) \div 2), d1a(q, (c - 1) % 2))]

\* dxe: merge(d1a, d2a, by = c()), product, ordered by (x2, x1)
estimate_joint_xx(p, q) ==
  [c \in 1..4 |-> Mul(d1a(p, (c - 1) % 2), d1a(q, (c - 1) \div 2))]

EstimateJointXX ==
  /\ pc = "margins"
  /\ dxe' = estimate_joint_xx(d1, d2)
  /\ pc' = "pooled"
  /\ UNCHANGED <<M, previous, suspended, n, count, start, body, loop, sum_loop, omit_vars>>
  /\ UNCHANGED <<model, den, detailed_frame, margin_frame, d1, d2,
                 estimated_proportions, v, ns, recovered_1, recovered_2,
                 z_opt, z_den, maxent_dist, error>>

\* estimated_proportions <- c(d1$proportion, d2$proportion, dxe$proportion)
assemble_observations(a, b, c) == a \o b \o c

Assemble ==
  /\ pc = "pooled"
  /\ estimated_proportions' = assemble_observations(d1, d2, dxe)
  /\ pc' = "assembled"
  /\ UNCHANGED <<M, previous, suspended, n, count, start, body, loop, sum_loop, omit_vars>>
  /\ UNCHANGED <<model, den, detailed_frame, margin_frame, d1, d2, dxe, v, ns,
                 recovered_1, recovered_2, z_opt, z_den, maxent_dist, error>>

(***************************************************************************)
(* v <- solve(qr(margin_transform, LAPACK = TRUE), estimated_proportions). *)
(* margin_transform has rank 7, and with LAPACK = TRUE the rank is not     *)
(* checked: back substitution determines seven cells from the eighth, and  *)
(* the eighth is a quotient of two rounding errors.  The cell p(1,1,TRUE)  *)
(* is therefore any value t, and t is drawn within MaxFree units of        *)
(* observation 8.                                                          *)
(***************************************************************************)
\* back substitution that reads observation 4 for observation 3 in p(0,0,FALSE)
BackSubstitute_row(o, t) ==
  << o[9] - o[4] + o[8] - t,
     o[10] - o[4] + t,
     o[11] - o[8] + t,
     o[12] - t,
     o[3] - o[8] + t,
     o[4] - t,
     o[8] - t,
     t >>

\* back substitution with the sign of the free cell wrong in p(0,0,FALSE)
BackSubstitute_sign(o, t) ==
  << o[9] - o[3] + o[8] + t,
     o[10] - o[4] + t,
     o[11] - o[8] + t,
     o[12] - t,
     o[3] - o[8] + t,
     o[4] - t,
     o[8] - t,
     t >>

BackSubstitute(o, t) ==
  << o[9] - o[3] + o[8] - t,
     o[10] - o[4] + t,
     o[11] - o[8] + t,
     o[12] - t,
     o[3] - o[8] + t,
     o[4] - t,
     o[8] - t,
     t >>

(***************************************************************************)
(* solve() of a qr object of a 12 x 8 matrix is qr.coef: the right hand    *)
(* side is first multiplied by t(Q), so that the triangular system that is *)
(* back substituted belongs to the orthogonal projection of the            *)
(* observations on the column space of margin_transform.  No residual is   *)
(* computed or compared.  HatNum / HatDen is that projection: it is        *)
(* symmetric, idempotent, of trace 7, and fixes every column of            *)
(* margin_transform.                                                       *)
(***************************************************************************)
HatDen == 24

HatNum ==
  << << 14, -4, -4,  2,  5,  5, -1, -1,  5, -1,  5, -1 >>,
     << -4, 14,  2, -4,  5,  5, -1, -1, -1,  5, -1,  5 >>,
     << -4,  2, 14, -4, -1, -1,  5,  5,  5, -1,  5, -1 >>,
     <<  2, -4, -4, 14, -1, -1,  5,  5, -1,  5, -1,  5 >>,
     <<  5,  5, -1, -1, 14, -4, -4,  2,  5,  5, -1, -1 >>,
     <<  5,  5, -1, -1, -4, 14,  2, -4, -1, -1,  5,  5 >>,
     << -1, -1,  5,  5, -4,  2, 14, -4,  5,  5, -1, -1 >>,
     << -1, -1,  5,  5,  2, -4, -4, 14, -1, -1,  5,  5 >>,
     <<  5, -1,  5, -1,  5, -1,  5, -1, 14, -4, -4,  2 >>,
     << -1,  5, -1,  5,  5, -1,  5, -1, -4, 14,  2, -4 >>,
     <<  5, -1,  5, -1, -1,  5, -1,  5, -4,  2, 14, -4 >>,
     << -1,  5, -1,  5, -1,  5, -1,  5,  2, -4, -4, 14 >> >>

\* the fitted observations: the part of o that margin_transform can produce
Project(o) == [r \in Rows |-> Dot(HatNum[r], o, 12) \div HatDen]

\* solve(qr(margin_transform, LAPACK = TRUE), o) with the free cell at t
solve_qr(o, t) == BackSubstitute(Project(o), t)

Solve ==
  /\ pc = "assembled"
  /\ \E f \in (0 - MaxFree)..MaxFree :
       v' = solve_qr(estimated_proportions, Project(estimated_proportions)[8] + f)
  /\ pc' = "solved"
  /\ UNCHANGED <<M, previous, suspended, n, count, start, body, loop, sum_loop, omit_vars>>
  /\ UNCHANGED <<model, den, detailed_frame, margin_frame, d1, d2, dxe,
                 estimated_proportions, ns, recovered_1, recovered_2,
                 z_opt, z_den, maxent_dist, error>>

(***************************************************************************)
(* ns <- MASS::Null(t(margin_transform)): a basis of the null space.  The  *)
(* primitive integer vectors of the null space inside the box are its      *)
(* directions; Null returns one of them at a scale and sign that depend    *)
(* on the factorization.                                                   *)
(***************************************************************************)
Zero12 == [r \in Rows |-> 0]
Zero8 == [k \in Cells |-> 0]

NullVectors(m) == {w \in [Cells -> (0 - NullBox)..NullBox] : Apply(m, w) = Zero12}

NullDirections(m) == {w \in NullVectors(m) : w # Zero8 /\ GCDSeq(w, 8) = 1}

RECURSIVE SetToSeq(_)
SetToSeq(S) ==
  IF S = {} THEN <<>>
  ELSE LET x == CHOOSE e \in S : TRUE IN <<x>> \o SetToSeq(S \ {x})

NullList == SetToSeq(NullDirections(margin_transform))

Null == {NullList[i] : i \in 1..Len(NullList)}

ScaleVec(w, s) == [k \in Cells |-> s * w[k]]

NullSpace ==
  /\ pc = "solved"
  /\ \E w \in Null : \E s \in 1..MaxScale : ns' = ScaleVec(w, s)
  /\ pc' = "nullspace"
  /\ UNCHANGED <<M, previous, suspended, n, count, start, body, loop, sum_loop, omit_vars>>
  /\ UNCHANGED <<model, den, detailed_frame, margin_frame, d1, d2, dxe,
                 estimated_proportions, v, recovered_1, recovered_2,
                 z_opt, z_den, maxent_dist, error>>

RECURSIVE SumAbs(_, _)
SumAbs(s, len) == IF len = 0 THEN 0 ELSE Abs(s[len]) + SumAbs(s, len - 1)

\* normalization without the sign convention
NormalizeVec_no_sign(w) == [k \in Cells |-> (8 * w[k]) \div SumAbs(w, 8)]

\* normalization with ifelse(ns >= 0, 1, -1) taken entry by entry
NormalizeVec_each_sign(w) ==
  [k \in Cells |-> (IF w[k] >= 0 THEN 1 ELSE 0 - 1) * ((8 * w[k]) \div SumAbs(w, 8))]

\* ns <- ns / (mean(abs(ns)) * ifelse(ns[[1]] >= 0, 1, -1))
NormalizeVec(w) ==
  [k \in Cells |-> (IF w[1] >= 0 THEN 1 ELSE 0 - 1) * ((8 * w[k]) \div SumAbs(w, 8))]

NormalizeNs ==
  /\ pc = "nullspace"
  /\ ns' = NormalizeVec(ns)
  /\ pc' = "normalized"
  /\ UNCHANGED <<M, previous, suspended, n, count, start, body, loop, sum_loop, omit_vars>>
  /\ UNCHANGED <<model, den, detailed_frame, margin_frame, d1, d2, dxe,
                 estimated_proportions, v, recovered_1, recovered_2,
                 z_opt, z_den, maxent_dist, error>>

(***************************************************************************)
(* All valid solutions are of the form v + z * ns for scalars z, and the   *)
(* non-negative ones are an interval of z values.  recovered_1 and         *)
(* recovered_2 are the two ends of the interval.                           *)
(***************************************************************************)
\* the family walked against the null direction
Family_minus(v0, z, dir) == [k \in Cells |-> v0[k] - z * dir[k]]

\* the family walked along the signs of ns only, as if ns were normalized
Family_signs(v0, z, dir) ==
  [k \in Cells |-> v0[k] + z * (IF dir[k] > 0 THEN 1 ELSE IF dir[k] < 0 THEN 0 - 1 ELSE 0)]

Family(v0, z, dir) == [k \in Cells |-> v0[k] + z * dir[k]]

SetMax(S) == CHOOSE a \in S : \A b \in S : b <= a
SetMin(S) == CHOOSE a \in S : \A b \in S : a <= b

\* the lower bounds combined by min instead of max
ZLo_least(v0, dir) == SetMin({0 - (v0[k] \div dir[k]) : k \in {c \in Cells : dir[c] > 0}})

\* least z with v0[k] + z * dir[k] >= 0 for every k with dir[k] > 0
ZLo(v0, dir) == SetMax({0 - (v0[k] \div dir[k]) : k \in {c \in Cells : dir[c] > 0}})

\* greatest z with v0[k] + z * dir[k] >= 0 for every k with dir[k] < 0
ZHi(v0, dir) == SetMin({v0[k] \div (0 - dir[k]) : k \in {c \in Cells : dir[c] < 0}})

Infeasible(v0, dir) ==
  \/ \E k \in Cells : dir[k] = 0 /\ v0[k] < 0
  \/ /\ \E k \in Cells : dir[k] > 0
     /\ \E k \in Cells : dir[k] < 0
     /\ ZLo(v0, dir) > ZHi(v0, dir)

SolutionInterval ==
  /\ pc = "normalized"
  /\ ~Infeasible(v, ns)
  /\ recovered_1' = Family(v, ZLo(v, ns), ns)
  /\ recovered_2' = Family(v, ZHi(v, ns), ns)
  /\ pc' = "interval"
  /\ UNCHANGED <<M, previous, suspended, n, count, start, body, loop, sum_loop, omit_vars>>
  /\ UNCHANGED <<model, den, detailed_frame, margin_frame, d1, d2, dxe,
                 estimated_proportions, v, ns, z_opt, z_den, maxent_dist, error>>

InfeasibleReconstruction ==
  /\ pc = "normalized"
  /\ Infeasible(v, ns)
  /\ error' = "InfeasibleReconstruction"
  /\ pc' = "failed"
  /\ UNCHANGED <<M, previous, suspended, n, count, start, body, loop, sum_loop, omit_vars>>
  /\ UNCHANGED <<model, den, detailed_frame, margin_frame, d1, d2, dxe,
                 estimated_proportions, v, ns, recovered_1, recovered_2,
                 z_opt, z_den, maxent_dist>>

(***************************************************************************)
(* Exact natural numbers of any size: little-endian sequences of limbs in  *)
(* base Base, without leading zero limbs; <<>> is zero.                    *)
(***************************************************************************)
Base == 10000

RECURSIVE BigMulSmall(_, _, _)
BigMulSmall(b, m, carry) ==
  IF b = <<>>
  THEN IF carry = 0 THEN <<>> ELSE <<carry % Base>> \o BigMulSmall(<<>>, m, carry \div Base)
  ELSE LET t == b[1] * m + carry
       IN <<t % Base>> \o BigMulSmall(Tail(b), m, t \div Base)

RECURSIVE BigAdd(_, _, _)
BigAdd(a, b, carry) ==
  IF a = <<>> /\ b = <<>>
  THEN IF carry = 0 THEN <<>> ELSE <<carry>>
  ELSE LET x == IF a = <<>> THEN 0 ELSE a[1]
           y == IF b = <<>> THEN 0 ELSE b[1]
           t == x + y + carry
       IN <<t % Base>> \o BigAdd(IF a = <<>> THEN <<>> ELSE Tail(a),
                                 IF b = <<>> THEN <<>> ELSE Tail(b), t \div Base)

BigShift(a) == IF a = <<>> THEN <<>> ELSE <<0>> \o a

RECURSIVE BigMul(_, _)
BigMul(a, b) ==
  IF a = <<>> \/ b = <<>> THEN <<>>
  ELSE BigAdd(BigMulSmall(b, a[1], 0), BigShift(BigMul(Tail(a), b)), 0)

RECURSIVE BigPow(_, _)
BigPow(a, e) == IF e = 0 THEN <<1>> ELSE BigMul(a, BigPow(a, e - 1))

\* b * m^e for a small m
RECURSIVE BigTimesPow(_, _, _)
BigTimesPow(b, m, e) == IF e = 0 THEN b ELSE BigTimesPow(BigMulSmall(b, m, 0), m, e - 1)

RECURSIVE BigLessFrom(_, _, _)
BigLessFrom(a, b, i) ==
  IF i = 0 THEN FALSE
  ELSE IF a[i] # b[i] THEN a[i] < b[i] ELSE BigLessFrom(a, b, i - 1)

BigLess(a, b) == IF Len(a) # Len(b) THEN Len(a) < Len(b) ELSE BigLessFrom(a, b, Len(a))

(***************************************************************************)
(* entropy <- function(v) { v <- v[v > 0]; v <- v / sum(v);                *)
(*                          -sum(v * log2(v)) }                            *)
(* With s the sum of the positive entries and w the product of v_k^v_k     *)
(* over them, the value is log2(s) - log2(w) / s; it is carried as the     *)
(* pair (s, w).                                                            *)
(***************************************************************************)
RECURSIVE SumPos(_, _)
SumPos(u, len) == IF len = 0 THEN 0 ELSE (IF u[len] > 0 THEN u[len] ELSE 0) + SumPos(u, len - 1)

RECURSIVE PowPos(_, _)
PowPos(u, len) ==
  IF len = 0 THEN <<1>>
  ELSE IF u[len] > 0 THEN BigTimesPow(PowPos(u, len - 1), u[len], u[len]) ELSE PowPos(u, len - 1)

\* -sum(log2(v)): the weight v of each term left out
RECURSIVE ProdPos(_, _)
ProdPos(u, len) ==
  IF len = 0 THEN <<1>>
  ELSE IF u[len] > 0 THEN BigMulSmall(ProdPos(u, len - 1), u[len], 0) ELSE ProdPos(u, len - 1)

entropy_unweighted(u) == [s |-> SumPos(u, 8), w |-> ProdPos(u, 8)]

entropy(u) == [s |-> SumPos(u, 8), w |-> PowPos(u, 8)]

\* e1 < e2 as real numbers
EntropyLess(e1, e2) ==
  IF e1.s = e2.s
  THEN BigLess(e2.w, e1.w)
  ELSE BigLess(BigMul(BigTimesPow(<<1>>, e1.s, e1.s * e2.s), BigPow(e2.w, e1.s)),
               BigMul(BigTimesPow(<<1>>, e2.s, e1.s * e2.s), BigPow(e1.w, e2.s)))

(***************************************************************************)
(* opt_soln <- optimize(function(z) entropy(z * recovered_1 +              *)
(*                       (1 - z) * recovered_2), c(0, 1), maximum = TRUE)  *)
(* z runs over the grid 0/g, 1/g, .., g/g on which every mix is a whole    *)
(* number of units; optimize returns a point of the grid at which the      *)
(* objective is largest.                                                   *)
(***************************************************************************)
RECURSIVE MaxAbsDiff(_, _, _)
MaxAbsDiff(a, b, len) ==
  IF len = 0 THEN 0
  ELSE LET r == MaxAbsDiff(a, b, len - 1)
       IN IF Abs(a[len] - b[len]) > r THEN Abs(a[len] - b[len]) ELSE r

GridOf(r1, r2) == IF MaxAbsDiff(r1, r2, 8) = 0 THEN 1 ELSE MaxAbsDiff(r1, r2, 8)

\* the mix with the weights z and 1 + z
Mix_outside(r1, r2, j, g) == [k \in Cells |-> r1[k] + (j * (r1[k] - r2[k])) \div g]

\* z * recovered_1 + (1 - z) * recovered_2 at z = j / g, written as
\* recovered_2 + z * (recovered_1 - recovered_2) to keep the numbers small
Mix(r1, r2, j, g) == [k \in Cells |-> r2[k] + (j * (r1[k] - r2[k])) \div g]

RECURSIVE ArgMax(_, _, _, _, _, _)
ArgMax(r1, r2, g, j, best, bestE) ==
  IF j > g THEN best
  ELSE LET e == entropy(Mix(r1, r2, j, g))
       IN IF EntropyLess(bestE, e) THEN ArgMax(r1, r2, g, j + 1, {j}, e)
          ELSE IF EntropyLess(e, bestE) THEN ArgMax(r1, r2, g, j + 1, best, bestE)
          ELSE ArgMax(r1, r2, g, j + 1, best \cup {j}, bestE)

\* optimize without maximum = TRUE: the minimum is searched
RECURSIVE ArgMin(_, _, _, _, _, _)
ArgMin(r1, r2, g, j, best, bestE) ==
  IF j > g THEN best
  ELSE LET e == entropy(Mix(r1, r2, j, g))
       IN IF EntropyLess(e, bestE) THEN ArgMin(r1, r2, g, j + 1, {j}, e)
          ELSE IF EntropyLess(bestE, e) THEN ArgMin(r1, r2, g, j + 1, best, bestE)
          ELSE ArgMin(r1, r2, g, j + 1, best \cup {j}, bestE)

optimize_minimum(r1, r2, g) == ArgMin(r1, r2, g, 1, {0}, entropy(Mix(r1, r2, 0, g)))

optimize(r1, r2, g) == ArgMax(r1, r2, g, 1, {0}, entropy(Mix(r1, r2, 0, g)))

Optimize ==
  /\ pc = "interval"
  /\ z_den' = GridOf(recovered_1, recovered_2)
  /\ z_opt' \in optimize(recovered_1, recovered_2, z_den')
  /\ maxent_dist' = Mix(recovered_1, recovered_2, z_opt', z_den')
  /\ pc' = "done"
  /\ UNCHANGED <<M, previous, suspended, n, count, start, body, loop, sum_loop, omit_vars>>
  /\ UNCHANGED <<model, den, detailed_frame, margin_frame, d1, d2, dxe,
                 estimated_proportions, v, ns, recovered_1, recovered_2, error>>

Next ==
  \/ Margins
  \/ EstimateJointXX
  \/ Assemble
  \/ Solve
  \/ NullSpace
  \/ NormalizeNs
  \/ SolutionInterval
  \/ InfeasibleReconstruction
  \/ Optimize


Spec == Init /\ [][Next]_vars

(***************************************************************************)
(* The worked example of the notebook: the margins printed for the two     *)
(* experimenters and the estimated x1 x2 distribution, in units of 1e-7.   *)
(* The pipeline is entered at the point where d1, d2 and dxe are known.    *)
(***************************************************************************)
ExampleDen == 10000000
ExampleD1 == <<6100538, 2386123, 899462, 613877>>
ExampleD2 == <<517616, 7969046, 1482384, 30954>>
ExampleDxe == <<1400000, 600000, 5600000, 2400000>>

InitExample ==
  /\ pc = "pooled"
  /\ model = NoModel
  /\ den = ExampleDen
  /\ detailed_frame = None
  /\ margin_frame = None
  /\ d1 = ExampleD1
  /\ d2 = ExampleD2
  /\ dxe = ExampleDxe
  /\ estimated_proportions = None
  /\ v = None
  /\ ns = None
  /\ recovered_1 = None
  /\ recovered_2 = None
  /\ z_opt = 0
  /\ z_den = 1
  /\ maxent_dist = None
  /\ error = "none"
  /\ M = margin_transform
  /\ previous = None
  /\ suspended = None
  /\ PopcountIdle
  /\ SumLoopIdle
  /\ OmitIdle

\* a natural number as limbs
RECURSIVE ToBig(_)
ToBig(num) == IF num = 0 THEN <<>> ELSE <<num % Base>> \o ToBig(num \div Base)

BigProd4(a, b, c, d) == BigMul(BigMul(ToBig(a), ToBig(b)), BigMul(ToBig(c), ToBig(d)))

\* sum of test_vec_k * log(u_k) >= 0, for u without negative entries
LogSumNonNegative(u) ==
  ~BigLess(BigProd4(u[1], u[4], u[6], u[7]), BigProd4(u[2], u[3], u[5], u[8]))

(***************************************************************************)
(* "The entropy is maximized where the gradient is zero, and this gradient *)
(* being zero is the same condition as our distribution being orthogonal   *)
(* to ns."  The gradient of the objective at z = j / g is the signed log   *)
(* sum of the mix; it is >= 0 at z = 0 and falls as z grows.  Stationary   *)
(* is the last grid point at which it is still >= 0, found by bisection.   *)
(***************************************************************************)
RECURSIVE Bisect(_, _, _, _, _)
Bisect(r1, r2, g, lo, hi) ==
  IF hi - lo <= 1 THEN lo
  ELSE LET mid == (lo + hi) \div 2
       IN IF LogSumNonNegative(Mix(r1, r2, mid, g))
          THEN Bisect(r1, r2, g, mid, hi)
          ELSE Bisect(r1, r2, g, lo, mid)

Stationary(r1, r2, g) ==
  IF LogSumNonNegative(Mix(r1, r2, g, g)) THEN g ELSE Bisect(r1, r2, g, 0, g)

\* optimize's default tolerance is .Machine$double.eps^0.25 = 1 / OptTolDen
OptTolDen == 8192

\* optimize returns a z within its tolerance of the stationary point
optimize_stationary(r1, r2, g) ==
  LET st == Stationary(r1, r2, g)
      tol == g \div OptTolDen + 1
  IN {j \in (st - tol)..(st + 1 + tol) : 0 <= j /\ j <= g}

OptimizeStationary ==
  /\ pc = "interval"
  /\ z_den' = GridOf(recovered_1, recovered_2)
  /\ z_opt' \in optimize_stationary(recovered_1, recovered_2, z_den')
  /\ maxent_dist' = Mix(recovered_1, recovered_2, z_opt', z_den')
  /\ pc' = "done"
  /\ UNCHANGED <<M, previous, suspended, n, count, start, body, loop, sum_loop, omit_vars>>
  /\ UNCHANGED <<model, den, detailed_frame, margin_frame, d1, d2, dxe,
                 estimated_proportions, v, ns, recovered_1, recovered_2, error>>

NextExample ==
  \/ Assemble
  \/ Solve
  \/ NullSpace
  \/ NormalizeNs
  \/ SolutionInterval
  \/ OptimizeStationary

SpecExample == InitExample /\ [][NextExample]_vars

(***************************************************************************)
(* Two experimenters who did not observe the same population: d1 is the    *)
(* (x1, y) table of one detailed frame and d2 the (x2, y) table of         *)
(* another.  The frames share one denominator, chosen so that the products *)
(* and the projection the pipeline forms are exact.  The notebook          *)
(* continues from the two tables as it does from the tables of one frame.  *)
(***************************************************************************)
SourceFrames ==
  { <<8, 0, 0, 8, 0, 8, 8, 0>>,
    <<0, 8, 8, 0, 8, 0, 0, 8>>,
    <<8, 8, 0, 8, 0, 0, 8, 0>>,
    <<8, 8, 8, 0, 0, 0, 0, 8>>,
    <<16, 0, 0, 0, 0, 8, 8, 0>> }

InitTwoSources ==
  /\ pc = "margins"
  /\ model = NoModel
  /\ detailed_frame = None
  /\ margin_frame = None
  /\ \E a \in SourceFrames : \E b \in SourceFrames :
       /\ den = Sum8(a)
       /\ d1 = [i \in 1..4 |-> Apply(margin_transform, a)[i]]
       /\ d2 = [i \in 1..4 |-> Apply(margin_transform, b)[4 + i]]
  /\ dxe = None
  /\ estimated_proportions = None
  /\ v = None
  /\ ns = None
  /\ recovered_1 = None
  /\ recovered_2 = None
  /\ z_opt = 0
  /\ z_den = 1
  /\ maxent_dist = None
  /\ error = "none"
  /\ M = margin_transform
  /\ previous = None
  /\ suspended = None
  /\ PopcountIdle
  /\ SumLoopIdle
  /\ OmitIdle

NextTwoSources ==
  \/ EstimateJointXX
  \/ Assemble
  \/ Solve
  \/ NullSpace
  \/ NormalizeNs
  \/ SolutionInterval
  \/ Optimize

SpecTwoSources == InitTwoSources /\ [][NextTwoSources]_vars

(***************************************************************************)
(* Running the pipeline a second time in the same session.  The notebook   *)
(* keeps its variables between runs: the second run starts from the same   *)
(* d1 and d2 with everything the first run assigned still in place.  What  *)
(* the first run returned is remembered in previous for comparison.        *)
(***************************************************************************)
Outcome ==
  [error |-> error, recovered_1 |-> recovered_1, recovered_2 |-> recovered_2,
   z_opt |-> z_opt, z_den |-> z_den, maxent_dist |-> maxent_dist]

Rerun ==
  /\ pc \in {"done", "failed"}
  /\ previous = None
  /\ previous' = Outcome
  /\ error' = "none"
  /\ pc' = "margins"
  /\ UNCHANGED <<M, suspended, n, count, start, body, loop, sum_loop, omit_vars>>
  /\ UNCHANGED <<model, den, detailed_frame, margin_frame, d1, d2, dxe,
                 estimated_proportions, v, ns, recovered_1, recovered_2,
                 z_opt, z_den, maxent_dist>>

NextRerun == Next \/ Rerun

SpecRerun == Init /\ [][NextRerun]_vars

(***************************************************************************)
(* Several invocations at once, as mclapply(r_seq, est_perf, mc.cores =    *)
(* ncore) runs a function over a list: every job runs in a forked child    *)
(* that has its own copy of the session's memory, and the children are     *)
(* scheduled in any order.  Two jobs are modelled.  The variables hold the *)
(* memory of the child that is running and suspended holds the memory of   *)
(* the other one.                                                          *)
(***************************************************************************)
Workspace ==
  <<pc, model, den, detailed_frame, margin_frame, d1, d2, dxe,
    estimated_proportions, v, ns, recovered_1, recovered_2,
    z_opt, z_den, maxent_dist, error, M>>

\* the memory of a job that is given the detailed frame p
StartOf(p) ==
  <<"start", NoModel, Sum8(p), p, None, None, None, None,
    None, None, None, None, None,
    0, 1, None, "none", margin_transform>>

ParallelFrames ==
  { <<1, 1, 3, 3, 2, 2, 3, 3>>,
    <<2, 1, 1, 2, 2, 1, 1, 2>>,
    <<2, 0, 0, 0, 0, 0, 0, 2>> }

\* jobs run as threads of one process: only the position, the argument and
\* the condition raised are the job's own, the session's variables are shared
child_memory_shared(own, running) ==
  [i \in 1..18 |-> IF i \in {1, 2, 3, 4, 17} THEN own[i] ELSE running[i]]

\* what a child finds in memory when it is scheduled again: its own copy
child_memory(own, running) == own

InitParallel ==
  /\ \E p \in ParallelFrames : \E q \in ParallelFrames :
       /\ pc = StartOf(p)[1]
       /\ model = StartOf(p)[2]
       /\ den = StartOf(p)[3]
       /\ detailed_frame = StartOf(p)[4]
       /\ margin_frame = StartOf(p)[5]
       /\ d1 = StartOf(p)[6]
       /\ d2 = StartOf(p)[7]
       /\ dxe = StartOf(p)[8]
       /\ estimated_proportions = StartOf(p)[9]
       /\ v = StartOf(p)[10]
       /\ ns = StartOf(p)[11]
       /\ recovered_1 = StartOf(p)[12]
       /\ recovered_2 = StartOf(p)[13]
       /\ z_opt = StartOf(p)[14]
       /\ z_den = StartOf(p)[15]
       /\ maxent_dist = StartOf(p)[16]
       /\ error = StartOf(p)[17]
       /\ M = StartOf(p)[18]
       /\ suspended = StartOf(q)
  /\ previous = None
  /\ PopcountIdle
  /\ SumLoopIdle
  /\ OmitIdle

Schedule ==
  /\ suspended # None
  /\ LET w == child_memory(suspended, Workspace)
     IN /\ pc' = w[1]
        /\ model' = w[2]
        /\ den' = w[3]
        /\ detailed_frame' = w[4]
        /\ margin_frame' = w[5]
        /\ d1' = w[6]
        /\ d2' = w[7]
        /\ dxe' = w[8]
        /\ estimated_proportions' = w[9]
        /\ v' = w[10]
        /\ ns' = w[11]
        /\ recovered_1' = w[12]
        /\ recovered_2' = w[13]
        /\ z_opt' = w[14]
        /\ z_den' = w[15]
        /\ maxent_dist' = w[16]
        /\ error' = w[17]
        /\ M' = w[18]
  /\ suspended' = Workspace
  /\ UNCHANGED <<previous, n, count, start, body, loop, sum_loop, omit_vars>>

NextParallel == Next \/ Schedule

SpecParallel == InitParallel /\ [][NextParallel]_vars

(***************************************************************************)
(* Another convention for the scale and sign of ns: the normalized vector  *)
(* times any c # 0 with |c| <= MaxC.  The end points of the interval are   *)
(* then at z = v[k] / (c * ns[k]); only the c that divide every entry of v *)
(* are taken, so that these z are whole numbers.                           *)
(***************************************************************************)
MaxC == 3

Renormalize ==
  /\ pc = "nullspace"
  /\ \E c \in (0 - MaxC)..MaxC :
       /\ c # 0
       /\ \A k \in Cells : v[k] % Abs(c) = 0
       /\ ns' = ScaleVec(NormalizeVec(ns), c)
  /\ pc' = "normalized"
  /\ UNCHANGED <<M, previous, suspended, n, count, start, body, loop, sum_loop, omit_vars>>
  /\ UNCHANGED <<model, den, detailed_frame, margin_frame, d1, d2, dxe,
                 estimated_proportions, v, recovered_1, recovered_2,
                 z_opt, z_den, maxent_dist, error>>

NextRescaled ==
  \/ Margins
  \/ EstimateJointXX
  \/ Assemble
  \/ Solve
  \/ NullSpace
  \/ Renormalize
  \/ SolutionInterval
  \/ InfeasibleReconstruction
  \/ Optimize

SpecRescaled == Init /\ [][NextRescaled]_vars

(***************************************************************************)
(* The popcount loop.  The loop counts its iterations in count and replaces *)
(* n by an update of n until n is 0, then returns count.  The criticised   *)
(* body is n = n ^ (n - 1); the usual one is n &= (n - 1).  Python integers *)
(* do not wrap, and the body only runs with n >= 1, so both operands of    *)
(* the bitwise operators are naturals.                                     *)
(***************************************************************************)
MaxN == 40

MaxCount == 8

\* the number of bits set in the binary representation of x
RECURSIVE popcount(_)
popcount(x) == IF x = 0 THEN 0 ELSE (x % 2) + popcount(x \div 2)

\* a ^ b
RECURSIVE BitXor(_, _)
BitXor(a, b) ==
  IF a = 0 THEN b
  ELSE IF b = 0 THEN a
  ELSE ((a + b) % 2) + 2 * BitXor(a \div 2, b \div 2)

\* a & b
RECURSIVE BitAnd(_, _)
BitAnd(a, b) ==
  IF a = 0 \/ b = 0 THEN 0
  ELSE ((a % 2) * (b % 2)) + 2 * BitAnd(a \div 2, b \div 2)

xor_update_and(x) == BitAnd(x, x - 1)

\* n ^ (n - 1)
xor_update(x) == BitXor(x, x - 1)

and_update_xor(x) == BitXor(x, x - 1)

\* n & (n - 1)
and_update(x) == BitAnd(x, x - 1)

\* the hidden data notebook has not been run
PipelineIdle ==
  /\ pc = "none"
  /\ model = NoModel
  /\ den = 1
  /\ detailed_frame = None
  /\ margin_frame = None
  /\ d1 = None
  /\ d2 = None
  /\ dxe = None
  /\ estimated_proportions = None
  /\ v = None
  /\ ns = None
  /\ recovered_1 = None
  /\ recovered_2 = None
  /\ z_opt = 0
  /\ z_den = 1
  /\ maxent_dist = None
  /\ error = "none"
  /\ M = margin_transform
  /\ previous = None
  /\ suspended = None

InitPopcount ==
  /\ PipelineIdle
  /\ SumLoopIdle
  /\ OmitIdle
  /\ \E b \in {"xor", "and"} : \E x \in 0..MaxN :
       /\ body = b
       /\ start = x
       /\ n = x
  /\ count = 0
  /\ loop = "running"

\* one iteration of the criticised loop
XorStep ==
  /\ loop = "running"
  /\ body = "xor"
  /\ n # 0
  /\ count < MaxCount
  /\ n' = xor_update(n)
  /\ count' = count + 1
  /\ UNCHANGED <<start, body, loop>>
  /\ UNCHANGED <<Workspace, previous, suspended, sum_loop, omit_vars>>

\* one iteration of the usual loop
AndStep ==
  /\ loop = "running"
  /\ body = "and"
  /\ n # 0
  /\ n' = and_update(n)
  /\ count' = count + 1
  /\ UNCHANGED <<start, body, loop>>
  /\ UNCHANGED <<Workspace, previous, suspended, sum_loop, omit_vars>>

\* the loop condition fails and count is returned
Return ==
  /\ loop = "running"
  /\ n = 0
  /\ loop' = "returned"
  /\ UNCHANGED <<n, count, start, body>>
  /\ UNCHANGED <<Workspace, previous, suspended, sum_loop, omit_vars>>

NextPopcount ==
  \/ XorStep
  \/ AndStep
  \/ Return

SpecPopcount == InitPopcount /\ [][NextPopcount]_vars

\* a running interpreter keeps executing the loop
SpecPopcountFair == SpecPopcount /\ WF_vars(NextPopcount)

(***************************************************************************)
(* The sum of |b - a| over pairs below n: the double loop f, and the       *)
(* closed form the notebook fits to it, evaluated in exact rationals as    *)
(* sympy does.  A rational is a pair <<numerator, denominator>> in lowest  *)
(* terms with a positive denominator.                                      *)
(***************************************************************************)
MaxArg == 9

\* the body of the inner loop
f_add_signed(r, x, y) == IF y # x THEN r + (y - x) ELSE r

f_add(r, x, y) == IF y # x THEN r + Abs(y - x) ELSE r

InitSumLoop ==
  /\ PipelineIdle
  /\ PopcountIdle
  /\ OmitIdle
  /\ f_n \in 0..MaxArg
  /\ f_a = 0
  /\ f_b = 0
  /\ res = 0
  /\ f_pc = "loop"

\* for b in range(n): if b != a: res = res + numpy.abs(b - a)
InnerStep ==
  /\ f_pc = "loop"
  /\ f_a < f_n
  /\ f_b < f_n
  /\ res' = f_add(res, f_a, f_b)
  /\ f_b' = f_b + 1
  /\ UNCHANGED <<f_n, f_a, f_pc>>
  /\ UNCHANGED <<Workspace, previous, suspended, n, count, start, body, loop, omit_vars>>

\* for a in range(n): the inner range is exhausted
OuterStep ==
  /\ f_pc = "loop"
  /\ f_a < f_n
  /\ f_b = f_n
  /\ f_a' = f_a + 1
  /\ f_b' = 0
  /\ UNCHANGED <<f_n, res, f_pc>>
  /\ UNCHANGED <<Workspace, previous, suspended, n, count, start, body, loop, omit_vars>>

\* return res
ReturnRes ==
  /\ f_pc = "loop"
  /\ f_a = f_n
  /\ f_pc' = "returned"
  /\ UNCHANGED <<f_n, f_a, f_b, res>>
  /\ UNCHANGED <<Workspace, previous, suspended, n, count, start, body, loop, omit_vars>>

NextSumLoop ==
  \/ InnerStep
  \/ OuterStep
  \/ ReturnRes

SpecSumLoop == InitSumLoop /\ [][NextSumLoop]_vars

Rational(p, q) == LET d == GCD(Abs(p), q) IN <<p \div d, q \div d>>

RatAdd(x, y) ==
  LET c == GCD(x[2], y[2])
  IN Rational(x[1] * (y[2] \div c) + y[1] * (x[2] \div c), (x[2] \div c) * y[2])

intercept_rational == <<0, 1>>

coef_rational == << <<0 - 1, 3>>, <<0, 1>>, <<1, 3>> >>

\* terms[i], with terms[0] the intercept
RECURSIVE formula_sum(_, _)
formula_sum(x, i) ==
  IF i = 0 THEN intercept_rational
  ELSE RatAdd(formula_sum(x, i - 1), Rational(coef_rational[i][1] * IPow(x, i), coef_rational[i][2]))

\* g(n_value) = formula.subs(n, n_value)
formula(x) == formula_sum(x, 3)

(***************************************************************************)
(* Omitted variables in linear and logistic regression.  The population d  *)
(* is the cross product of x_frame and omitted_frame with normalized row   *)
(* weights.  The constants of the linear equation (Euler's constant, pi    *)
(* and e in the notebook) are reals; here they range over whole numbers,   *)
(* and weights, sums and fitted coefficients are exact rationals.  The     *)
(* values are kept small enough for every sum of squared weights to stay   *)
(* within the range of the integers.                                       *)
(***************************************************************************)
RatSub(x, y) == RatAdd(x, <<0 - y[1], y[2]>>)

RatMul(x, y) == Rational(x[1] * y[1], x[2] * y[2])

\* x / y for y # 0
RatDiv(x, y) ==
  IF y[1] > 0 THEN Rational(x[1] * y[2], x[2] * y[1])
  ELSE Rational(0 - (x[1] * y[2]), x[2] * (0 - y[1]))

XFrames ==
  {[x |-> <<0 - 2, 1>>, wt |-> <<1, 1>>],
   [x |-> <<0, 1>>, wt |-> <<1, 2>>],
   [x |-> <<0 - 1, 1>>, wt |-> <<3, 1>>]}

OmittedFrames ==
  {[omitted |-> <<0 - 1, 1>>, wt |-> <<1, 1>>],
   [omitted |-> <<0 - 2, 1>>, wt |-> <<1, 2>>],
   [omitted |-> <<0 - 1, 2>>, wt |-> <<1, 1>>]}

LinearCoefs == {<<c, a, b>> : c \in {0, 1}, a \in {0 - 1, 2}, b \in {1, 0 - 1}}

InitOmit ==
  /\ PipelineIdle
  /\ PopcountIdle
  /\ SumLoopIdle
  /\ x_frame \in XFrames
  /\ omitted_frame \in OmittedFrames
  /\ linear_coef \in LinearCoefs
  /\ d_pop = None
  /\ fit_full = None
  /\ fit_x = None
  /\ d_logistic = None
  /\ omit_pc = "frames"

\* merge(x_frame, omitted_frame, by = c()) with wt = wt.x * wt.y: x varies fastest
merge(xf, of) ==
  [i \in 1..4 |->
     [x |-> xf.x[((i - 1) % 2) + 1],
      omitted |-> of.omitted[((i - 1) \div 2) + 1],
      wt |-> <<xf.wt[((i - 1) % 2) + 1] * of.wt[((i - 1) \div 2) + 1], 1>>]]

\* sum(d$wt) over the first k rows
RECURSIVE SumWt(_, _)
SumWt(rows, k) == IF k = 0 THEN <<0, 1>> ELSE RatAdd(SumWt(rows, k - 1), rows[k].wt)

\* d$wt <- d$wt / sum(d$wt)
normalize_wt(rows) ==
  [i \in 1..Len(rows) |-> [rows[i] EXCEPT !.wt = RatDiv(rows[i].wt, SumWt(rows, Len(rows)))]]

Merge ==
  /\ omit_pc = "frames"
  /\ d_pop' = normalize_wt(merge(x_frame, omitted_frame))
  /\ omit_pc' = "population"
  /\ UNCHANGED <<x_frame, omitted_frame, linear_coef, fit_full, fit_x, d_logistic>>
  /\ UNCHANGED <<Workspace, previous, suspended, n, count, start, body, loop, sum_loop>>

\* d$y_linear <- pi * d$x + e * d$omitted + Euler_constant
YLinear ==
  /\ omit_pc = "population"
  /\ d_pop' = [i \in 1..4 |->
                 [x |-> d_pop[i].x, omitted |-> d_pop[i].omitted, wt |-> d_pop[i].wt,
                  y_linear |-> linear_coef[2] * d_pop[i].x + linear_coef[3] * d_pop[i].omitted
                               + linear_coef[1]]]
  /\ omit_pc' = "y_linear"
  /\ UNCHANGED <<x_frame, omitted_frame, linear_coef, fit_full, fit_x, d_logistic>>
  /\ UNCHANGED <<Workspace, previous, suspended, n, count, start, body, loop, sum_loop>>

\* a column of a data frame
Col(rows, name) == [i \in 1..Len(rows) |-> rows[i][name]]

Ones(rows) == [i \in 1..Len(rows) |-> 1]

\* sum(wt * u * t) over the first k rows
RECURSIVE WSum(_, _, _, _)
WSum(rows, u, t, k) ==
  IF k = 0 THEN <<0, 1>>
  ELSE RatAdd(WSum(rows, u, t, k - 1), Rational(rows[k].wt[1] * u[k] * t[k], rows[k].wt[2]))

\* the weighted cross products of the columns of the design matrix
Gram(rows, cols) ==
  [j \in DOMAIN cols |-> [k \in DOMAIN cols |-> WSum(rows, cols[j], cols[k], Len(rows))]]

ReplaceCol(G, j, r) ==
  [p \in DOMAIN G |-> [q \in DOMAIN G |-> IF q = j THEN r[p] ELSE G[p][q]]]

Det2(G) == RatSub(RatMul(G[1][1], G[2][2]), RatMul(G[1][2], G[2][1]))

Minor(G, p, q) ==
  LET rs == IF p = 1 THEN <<2, 3>> ELSE IF p = 2 THEN <<1, 3>> ELSE <<1, 2>>
      cs == IF q = 1 THEN <<2, 3>> ELSE IF q = 2 THEN <<1, 3>> ELSE <<1, 2>>
  IN [k \in 1..2 |-> [l \in 1..2 |-> G[rs[k]][cs[l]]]]

Det(G) ==
  IF Len(G) = 2 THEN Det2(G)
  ELSE RatAdd(RatSub(RatMul(G[1][1], Det2(Minor(G, 1, 1))),
                     RatMul(G[1][2], Det2(Minor(G, 1, 2)))),
              RatMul(G[1][3], Det2(Minor(G, 1, 3))))

\* lm(y ~ cols, weights = wt)$coef without the weights
lm_unweighted(rows, cols, y) ==
  LET unit == [i \in 1..Len(rows) |-> [rows[i] EXCEPT !.wt = <<1, 1>>]]
      G == Gram(unit, cols)
      r == [j \in DOMAIN cols |-> WSum(unit, cols[j], y, Len(rows))]
  IN [j \in DOMAIN cols |-> RatDiv(Det(ReplaceCol(G, j, r)), Det(G))]

\* lm(y ~ cols, weights = wt)$coef for a design of full rank: the minimizer
\* of sum(wt * residual^2), the solution of the weighted normal equations
lm(rows, cols, y) ==
  LET G == Gram(rows, cols)
      r == [j \in DOMAIN cols |-> WSum(rows, cols[j], y, Len(rows))]
  IN [j \in DOMAIN cols |-> RatDiv(Det(ReplaceCol(G, j, r)), Det(G))]

\* lm(y_linear ~ x + omitted, data = d, weights = d$wt)$coef
FitFull ==
  /\ omit_pc = "y_linear"
  /\ fit_full' = lm(d_pop, <<Ones(d_pop), Col(d_pop, "x"), Col(d_pop, "omitted")>>,
                    Col(d_pop, "y_linear"))
  /\ omit_pc' = "fit_full"
  /\ UNCHANGED <<x_frame, omitted_frame, linear_coef, d_pop, fit_x, d_logistic>>
  /\ UNCHANGED <<Workspace, previous, suspended, n, count, start, body, loop, sum_loop>>

\* sum(d$omitted * d$wt) / sum(d$wt)
wmean(rows, u) ==
  RatDiv(WSum(rows, u, Ones(rows), Len(rows)), WSum(rows, Ones(rows), Ones(rows), Len(rows)))

\* sum(wt * (u - cu) * (t - ct)) over the first k rows
RECURSIVE CenteredSum(_, _, _, _, _, _)
CenteredSum(rows, u, t, cu, ct, k) ==
  IF k = 0 THEN <<0, 1>>
  ELSE RatAdd(CenteredSum(rows, u, t, cu, ct, k - 1),
              RatMul(rows[k].wt, RatMul(RatSub(<<u[k], 1>>, cu), RatSub(<<t[k], 1>>, ct))))

RECURSIVE SumWtSquared(_, _)
SumWtSquared(rows, k) ==
  IF k = 0 THEN <<0, 1>>
  ELSE RatAdd(SumWtSquared(rows, k - 1), RatMul(rows[k].wt, rows[k].wt))

\* cov.wt(d[, c(u, t)], wt = d$wt)$cov[u, t], for weights that sum to 1
cov_wt(rows, u, t) ==
  LET cu == WSum(rows, u, Ones(rows), Len(rows))
      ct == WSum(rows, t, Ones(rows), Len(rows))
  IN RatDiv(CenteredSum(rows, u, t, cu, ct, Len(rows)),
            RatSub(<<1, 1>>, SumWtSquared(rows, Len(rows))))

\* lm(y_linear ~ x, data = d, weights = d$wt)$coef
FitX ==
  /\ omit_pc = "fit_full"
  /\ fit_x' = lm(d_pop, <<Ones(d_pop), Col(d_pop, "x")>>, Col(d_pop, "y_linear"))
  /\ omit_pc' = "fit_x"
  /\ UNCHANGED <<x_frame, omitted_frame, linear_coef, d_pop, fit_full, d_logistic>>
  /\ UNCHANGED <<Workspace, previous, suspended, n, count, start, body, loop, sum_loop>>

\* sigmoid <- function(x) {1 / (1 + exp(-x))}, with exp taken to the base 2
\* so that the value at a whole number is rational
sigmoid(t) ==
  IF t >= 0 THEN Rational(IPow(2, t), IPow(2, t) + 1)
  ELSE Rational(1, 1 + IPow(2, 0 - t))

\* d$y_probability <- sigmoid(d$y_linear)
YProbability ==
  /\ omit_pc = "fit_x"
  /\ d_pop' = [i \in 1..4 |->
                 [x |-> d_pop[i].x, omitted |-> d_pop[i].omitted, wt |-> d_pop[i].wt,
                  y_linear |-> d_pop[i].y_linear,
                  y_probability |-> sigmoid(d_pop[i].y_linear)]]
  /\ omit_pc' = "y_probability"
  /\ UNCHANGED <<x_frame, omitted_frame, linear_coef, fit_full, fit_x, d_logistic>>
  /\ UNCHANGED <<Workspace, previous, suspended, n, count, start, body, loop, sum_loop>>

\* the weight of a row of d_plus or d_minus
split_wt_plus(row, obs) == RatMul(row.wt, row.y_probability)

split_wt(row, obs) ==
  IF obs THEN RatMul(row.wt, row.y_probability)
  ELSE RatMul(row.wt, RatSub(<<1, 1>>, row.y_probability))

\* d_plus or d_minus
d_outcome(rows, obs) ==
  [i \in 1..Len(rows) |->
     [x |-> rows[i].x, omitted |-> rows[i].omitted, wt |-> split_wt(rows[i], obs),
      y_linear |-> rows[i].y_linear, y_probability |-> rows[i].y_probability,
      y_observed |-> obs]]

\* d_logistic <- rbind(d_plus, d_minus); d_logistic$wt <- d_logistic$wt / sum(d_logistic$wt)
Split ==
  /\ omit_pc = "y_probability"
  /\ d_logistic' = normalize_wt(d_outcome(d_pop, TRUE) \o d_outcome(d_pop, FALSE))
  /\ omit_pc' = "d_logistic"
  /\ UNCHANGED <<x_frame, omitted_frame, linear_coef, d_pop, fit_full, fit_x>>
  /\ UNCHANGED <<Workspace, previous, suspended, n, count, start, body, loop, sum_loop>>

NextOmit ==
  \/ Merge
  \/ YLinear
  \/ FitFull
  \/ FitX
  \/ YProbability
  \/ Split

SpecOmit == InitOmit /\ [][NextOmit]_vars

(***************************************************************************)
(* Logarithms.  The logarithm of a positive rational is carried exactly as *)
(* its vector of prime exponents: log(a / b) = sum over primes p of        *)
(* (Expo(a, p) - Expo(b, p)) * log(p), and the logarithms of the primes    *)
(* are linearly independent over the rationals, so two such logarithms     *)
(* are equal exactly when their exponent vectors are.                      *)
(***************************************************************************)
Primes == {2, 3, 5, 7, 11, 13, 17, 19, 23, 29, 31, 37}

RECURSIVE Expo(_, _)
Expo(x, p) == IF x % p = 0 THEN 1 + Expo(x \div p, p) ELSE 0

\* log(r[1] / r[2])
log_ratio(r) == [p \in Primes |-> Expo(r[1], p) - Expo(r[2], p)]

LogZero == [p \in Primes |-> 0]

LogAdd(u, t) == [p \in Primes |-> u[p] + t[p]]

LogScale(u, k) == [p \in Primes |-> k * u[p]]

\* sum of the first k entries of a vector of logarithms
RECURSIVE LogSum(_, _)
LogSum(u, k) == IF k = 0 THEN LogZero ELSE LogAdd(LogSum(u, k - 1), u[k])

\* p_vec <- test_vec * log(detailed_frame$proportion)
p_vec(p, dn) == [k \in Cells |-> LogScale(log_ratio(<<p[k], dn>>), test_vec[k])]

\* c0 + b1 * x1 + b2 * x2 in row k, the coefficients being the logarithms of
\* the model's e0, e1, e2
y_linear(m, k) ==
  LogAdd(log_ratio(m.e0),
         LogAdd(LogScale(log_ratio(m.e1), X1(k)), LogScale(log_ratio(m.e2), X2(k))))

s_vec_no_minus(m) ==
  [k \in 1..4 |-> LogScale(y_linear(m, k), MinusOnePow(X1(k)) * MinusOnePow(X2(k)))]

\* s_vec <- -((-1)^x1[1:4] * (-1)^x2[1:4] * (c0 + b1 * x1[1:4] + b2 * x2[1:4]))
s_vec(m) ==
  [k \in 1..4 |-> LogScale(y_linear(m, k), 0 - (MinusOnePow(X1(k)) * MinusOnePow(X2(k))))]

\* p_comb <- p_vec[1:4] + p_vec[5:8]
p_comb(pv) == [k \in 1..4 |-> LogAdd(pv[k], pv[k + 4])]

(***************************************************************************)
(* Properties of the margin recovery pipeline.                             *)
(***************************************************************************)
\* how far outside the feasible interval, and around v, z is examined
MaxZ == 3

Done == pc = "done"
AfterMargins == pc \notin {"start"}
AfterPooled == pc \notin {"start", "margins"}
AfterAssembled == pc \notin {"start", "margins", "pooled"}
AfterSolved == pc \notin {"start", "margins", "pooled", "assembled"}
AfterNull == pc \notin {"start", "margins", "pooled", "assembled", "solved"}
AfterNormalized == pc \in {"normalized", "interval", "done", "failed"}
AfterInterval == pc \in {"interval", "done"}

NonNegative(u) == \A k \in Cells : u[k] >= 0
Positive(u) == \A k \in Cells : u[k] > 0
HasZero(u) == \E k \in Cells : u[k] = 0
HasNegative(u) == \E k \in Cells : u[k] < 0

\* product of the cells where the test vector is +1, and where it is -1
ProdPlus(u) == u[1] * u[4] * u[6] * u[7]
ProdMinus(u) == u[2] * u[3] * u[5] * u[8]

\* C1: the detailed frame of independent x1, x2 and an additive logit
\* model is recovered exactly from its margins by the maximum entropy mix.
C1_RoundTrip ==
  (Done /\ IsAdditiveIndependent(model)) => maxent_dist = detailed_frame

C1_Witness ==
  /\ Done
  /\ IsAdditiveIndependent(model)
  /\ model.e1 # <<1, 1>>
  /\ model.e2 # <<1, 1>>
  /\ model.pX1 # model.pX2
  /\ v # detailed_frame
  /\ HasNegative(v)
  /\ 0 < z_opt
  /\ z_opt < z_den
  /\ maxent_dist = detailed_frame

\* the vector the worked example is expected to return, in units of 1e-7
ExampleExpected == <<503400, 14200, 5597100, 2371900, 896600, 585800, 2900, 28100>>

\* C2: in the worked example the selected maximum entropy vector is within
\* 1e-4 (1000 units of 1e-7) of
\* 0.05034 0.00142 0.55971 0.23719 0.08966 0.05858 0.00029 0.00281.
C2_WorkedExample ==
  Done => \A k \in Cells : Abs(maxent_dist[k] - ExampleExpected[k]) <= 1000

C2_Witness ==
  /\ Done
  /\ estimated_proportions = ExampleD1 \o ExampleD2 \o ExampleDxe
  /\ HasNegative(v)
  /\ maxent_dist # recovered_1
  /\ maxent_dist # recovered_2
  /\ \A k \in Cells : Abs(recovered_1[k] - recovered_2[k]) > 1000
  /\ \A k \in Cells : Abs(maxent_dist[k] - ExampleExpected[k]) <= 1000

\* C3: the estimated x1 x2 distribution is the outer product of the x1
\* marginal and the x2 marginal, x1 varying fastest, and sums to one.
C3_OuterProduct ==
  AfterPooled =>
    /\ \A i \in 0..1 : \A j \in 0..1 :
         dxe[1 + i + 2 * j] * den = MargX1(detailed_frame, i) * MargX2(detailed_frame, j)
    /\ (MargX1(detailed_frame, 0) + MargX1(detailed_frame, 1) = den
        /\ MargX2(detailed_frame, 0) + MargX2(detailed_frame, 1) = den)
       => SumSeq(dxe, 4) = den

C3_Witness ==
  /\ AfterPooled
  /\ MargX1(detailed_frame, 0) # MargX2(detailed_frame, 0)
  /\ MargX1(detailed_frame, 0) # MargX1(detailed_frame, 1)
  /\ dxe[2] # dxe[3]
  /\ SumSeq(dxe, 4) = den

\* C4: the null space direction is mapped to zero by margin_transform, and
\* after normalization it is 1 -1 -1 1 -1 1 1 -1, the test vector.
C4_NullVector ==
  /\ AfterNull => Apply(margin_transform, ns) = Zero12
  /\ AfterNormalized =>
       /\ ns = <<1, 0 - 1, 0 - 1, 1, 0 - 1, 1, 1, 0 - 1>>
       /\ ns = test_vec

C4_Witness ==
  /\ pc = "nullspace"
  /\ ns[1] = 0 - 2
  /\ Apply(margin_transform, ns) = Zero12

\* C5: the null space of margin_transform has dimension one: every vector
\* mapped to zero is a multiple of ns, and ns is not zero.
C5_NullSpaceDimensionOne ==
  AfterNull =>
    /\ ns # Zero8
    /\ \A w \in Null : \E c \in {0 - 1, 1} : \A k \in Cells : ns[k] * c = w[k] * Abs(ns[1])

C5_Witness ==
  /\ AfterNormalized
  /\ Cardinality(Null) = 2
  /\ ns \in Null

\* C6: the ends of the feasible interval are tight: both end solutions are
\* non-negative with a zero entry, every z strictly inside gives positive
\* entries only, and every z outside gives a negative entry.
C6_IntervalTight ==
  AfterInterval =>
    /\ NonNegative(recovered_1) /\ HasZero(recovered_1)
    /\ NonNegative(recovered_2) /\ HasZero(recovered_2)
    /\ recovered_1 = [k \in Cells |-> v[k] + ZLo(v, ns) * ns[k]]
    /\ recovered_2 = [k \in Cells |-> v[k] + ZHi(v, ns) * ns[k]]
    /\ \A z \in (ZLo(v, ns) + 1)..(ZHi(v, ns) - 1) :
         Positive([k \in Cells |-> v[k] + z * ns[k]])
    /\ \A z \in ((ZLo(v, ns) - MaxZ)..(ZLo(v, ns) - 1))
                  \cup ((ZHi(v, ns) + 1)..(ZHi(v, ns) + MaxZ)) :
         HasNegative([k \in Cells |-> v[k] + z * ns[k]])

C6_Witness ==
  /\ AfterInterval
  /\ HasNegative(v)
  /\ ZHi(v, ns) - ZLo(v, ns) >= 3
  /\ recovered_1 # recovered_2
  /\ HasZero(recovered_1)
  /\ HasZero(recovered_2)

\* C7: every member v + z * ns of the solution family has the image of v
\* under margin_transform, and the same sum of entries.
C7_SameObservations ==
  AfterNormalized =>
    \A z \in (0 - MaxZ)..MaxZ :
      /\ Apply(margin_transform, [k \in Cells |-> v[k] + z * ns[k]])
           = Apply(margin_transform, v)
      /\ Sum8([k \in Cells |-> v[k] + z * ns[k]]) = Sum8(v)
      /\ Apply(margin_transform, v) = estimated_proportions

C7_Witness ==
  /\ Done
  /\ maxent_dist # v
  /\ recovered_1 # recovered_2
  /\ Apply(margin_transform, maxent_dist) = estimated_proportions
  /\ Apply(margin_transform, recovered_1) = Apply(margin_transform, recovered_2)

\* C8: the final maximum entropy vector is a distribution: no entry is
\* negative and the entries sum to one, also when v has negative entries.
C8_ValidDistribution ==
  Done => (NonNegative(maxent_dist) /\ Sum8(maxent_dist) = den)

C8_Witness ==
  /\ Done
  /\ HasNegative(v)
  /\ NonNegative(maxent_dist)
  /\ Sum8(maxent_dist) = den

\* the mixes of recovered_1 and recovered_2 on the grid
MixAt(j) == Mix(recovered_1, recovered_2, j, z_den)

\* sum of ns_k * log(u_k) is positive, zero, negative as LogSign is
LogSign(u) == ProdPlus(u) - ProdMinus(u)

\* C9: the maximum entropy point is the one feasible point whose logarithm
\* is orthogonal to ns: at most one mix has the product of its + cells
\* equal to the product of its - cells, such a mix is the only maximizer of
\* the entropy, and the maximizer always lies between a mix of negative
\* and a mix of positive signed log sum.
C9_MaxEntOrthogonal ==
  Done =>
    /\ \A i \in 0..z_den : \A j \in 0..z_den :
         (LogSign(MixAt(i)) = 0 /\ LogSign(MixAt(j)) = 0) => MixAt(i) = MixAt(j)
    /\ \A j \in 0..z_den :
         LogSign(MixAt(j)) = 0 => maxent_dist = MixAt(j)
    /\ z_opt + 1 <= z_den => LogSign(MixAt(z_opt + 1)) < 0
    /\ z_opt - 1 >= 0 => LogSign(MixAt(z_opt - 1)) > 0

C9_Witness ==
  /\ Done
  /\ z_den >= 4
  /\ 0 < z_opt
  /\ z_opt < z_den
  /\ LogSign(maxent_dist) = 0
  /\ LogSign(recovered_1) < 0
  /\ LogSign(recovered_2) > 0

\* the sum of the cells of p with the given values of x1, x2, y (2: any)
Marginal(p, i, j, o) ==
  LET sel == [k \in Cells |->
                IF /\ (i = 2 \/ X1(k) = i)
                   /\ (j = 2 \/ X2(k) = j)
                   /\ (o = 2 \/ Y(k) = o)
                THEN p[k] ELSE 0]
  IN Sum8(sel)

\* C10: margin_transform maps a detailed frame to its (x1, y) table in rows
\* 1-4, its (x2, y) table in rows 5-8 and its (x1, x2) table in rows 9-12,
\* the order in which d1, d2 and dxe are concatenated.
C10_RowAlignment ==
  /\ AfterMargins =>
       \A a \in 0..1 : \A b \in 0..1 :
         /\ margin_frame[1 + a + 2 * b] = Marginal(detailed_frame, a, 2, b)
         /\ margin_frame[5 + a + 2 * b] = Marginal(detailed_frame, 2, a, b)
         /\ margin_frame[9 + a + 2 * b] = Marginal(detailed_frame, a, b, 2)
  /\ AfterAssembled =>
       \A a \in 0..1 : \A b \in 0..1 :
         /\ estimated_proportions[1 + a + 2 * b] = Marginal(detailed_frame, a, 2, b)
         /\ estimated_proportions[5 + a + 2 * b] = Marginal(detailed_frame, 2, a, b)
         /\ estimated_proportions[9 + a + 2 * b] = dxe[1 + a + 2 * b]
         /\ model.dep = 1 =>
              estimated_proportions[9 + a + 2 * b] = Marginal(detailed_frame, a, b, 2)

C10_Witness ==
  /\ AfterAssembled
  /\ model.dep = 1
  /\ Cardinality({estimated_proportions[r] : r \in Rows}) >= 8
  /\ estimated_proportions = margin_frame

\* no 8-entry vector has the observations o as its margins
Inconsistent(o) == \E r \in Rows : Dot(HatNum[r], o, 12) # HatDen * o[r]

\* C11: when d1 and d2 are mutually inconsistent the pipeline ends in
\* InconsistentObservations and produces no point estimate.
C11_InconsistentObservations ==
  (AfterSolved /\ Inconsistent(estimated_proportions)) =>
    (pc \in {"done", "failed"} =>
       (error = "InconsistentObservations" /\ maxent_dist = None))

\* C12: the interval step fails with InfeasibleReconstruction, leaving no
\* interval end and no vector, exactly when no z makes every entry of
\* v + z * ns non-negative.
C12_InfeasibleExactly ==
  LET feasible == \E z \in (0 - 2 * den)..(2 * den) :
                    \A k \in Cells : v[k] + z * ns[k] >= 0
  IN /\ pc = "failed" =>
          /\ error = "InfeasibleReconstruction"
          /\ ~feasible
          /\ recovered_1 = None
          /\ recovered_2 = None
          /\ maxent_dist = None
     /\ AfterInterval => (feasible /\ error = "none")

C12_Witness ==
  /\ pc = "failed"
  /\ error = "InfeasibleReconstruction"
  /\ HasNegative(v)
  /\ \A k \in Cells : ns[k] # 0
  /\ \A z \in (0 - 2 * den)..(2 * den) : HasNegative(Family(v, z, ns))

Alone(p) ==
  LET t == Apply(margin_transform, p)
      a == [i \in 1..4 |-> t[i]]
      b == [i \in 1..4 |-> t[4 + i]]
      o == assemble_observations(a, b, estimate_joint_xx(a, b))
      x == solve_qr(o, Project(o)[8])
      unit == NormalizeVec(NullList[1])
  IN IF Infeasible(x, unit)
     THEN {[error |-> "InfeasibleReconstruction", recovered_1 |-> None,
            recovered_2 |-> None, maxent_dist |-> None]}
     ELSE LET r1 == Family(x, ZLo(x, unit), unit)
              r2 == Family(x, ZHi(x, unit), unit)
              g == GridOf(r1, r2)
          IN {[error |-> "none", recovered_1 |-> r1, recovered_2 |-> r2,
               maxent_dist |-> Mix(r1, r2, j, g)] : j \in optimize(r1, r2, g)}

C16_NormalizationInvariant ==
  AfterNormalized =>
    LET unit == NormalizeVec(ns)
        c == ns[1] \div unit[1]
        r1 == Family(v, ZLo(v, unit), unit)
        r2 == Family(v, ZHi(v, unit), unit)
        g == GridOf(r1, r2)
    IN /\ ns = ScaleVec(unit, c)
       /\ pc = "failed" => Infeasible(v, unit)
       /\ AfterInterval =>
            /\ ~Infeasible(v, unit)
            /\ {recovered_1, recovered_2} = {r1, r2}
            /\ {c * ZLo(v, ns), c * ZHi(v, ns)} = {ZLo(v, unit), ZHi(v, unit)}
       /\ Done => maxent_dist \in {Mix(r1, r2, j, g) : j \in optimize(r1, r2, g)}

C16_Witness ==
  /\ Done
  /\ ns[1] <= 0 - 2
  /\ HasNegative(v)
  /\ recovered_1 # recovered_2
  /\ 0 < z_opt
  /\ z_opt < z_den
  /\ ZLo(v, ns) # ZLo(v, NormalizeVec(ns))

\* the product of the entries of u in the cells where the test vector is sgn
RECURSIVE SignedProduct(_, _, _)
SignedProduct(u, sgn, len) ==
  IF len = 0 THEN 1
  ELSE (IF test_vec[len] = sgn THEN u[len] ELSE 1) * SignedProduct(u, sgn, len - 1)

\* C18: the logarithm of the proportions of a detailed frame built from
\* independent x1, x2 and an additive logit model is orthogonal to the test
\* vector: the product of the + cells equals the product of the - cells.
C18_LogOrthogonal ==
  IsAdditiveIndependent(model) =>
    /\ Positive(detailed_frame)
    /\ SignedProduct(detailed_frame, 1, 8) = SignedProduct(detailed_frame, 0 - 1, 8)

C18_Witness ==
  /\ IsAdditiveIndependent(model)
  /\ model.e0 # <<1, 1>>
  /\ model.e1 # <<1, 1>>
  /\ model.e2 # <<1, 1>>
  /\ model.pX1 # <<1, 1>>
  /\ Cardinality({detailed_frame[k] : k \in Cells}) >= 5
  /\ AfterMargins
  /\ SignedProduct(detailed_frame, 1, 8) = SignedProduct(detailed_frame, 0 - 1, 8)

\* the weight of y = FALSE in an experimenter's view
YFalse(d) == d[1] + d[2]

\* C27: when d1 and d2 each sum to 1 and give y the same distribution, and
\* dxe is the outer product of the x1 margin of d1 and the x2 margin of d2,
\* the assembled observations are margins of some 8-entry vector: they equal
\* their own projection on the column space of margin_transform, and the
\* solve returns a v with margin_transform v = estimated_proportions, also
\* when d1 and d2 come from data in which x1 and x2 are dependent.
C27_AssembledConsistent ==
  (/\ AfterAssembled
   /\ SumSeq(d1, 4) = den
   /\ SumSeq(d2, 4) = den
   /\ YFalse(d1) = YFalse(d2)
   /\ dxe = estimate_joint_xx(d1, d2)) =>
    /\ ~Inconsistent(estimated_proportions)
    /\ AfterSolved => Apply(M, v) = estimated_proportions

C27_Witness ==
  /\ AfterSolved
  /\ d1 = <<16, 0, 8, 8>>
  /\ d2 = <<8, 8, 8, 8>>
  /\ dxe = <<12, 4, 12, 4>>
  /\ Apply(M, v) = estimated_proportions

\* the mixes the optimizer can evaluate, on the grid of z
Mixes == {Mix(recovered_1, recovered_2, j, GridOf(recovered_1, recovered_2)) :
            j \in 0..GridOf(recovered_1, recovered_2)}

\* C28: the convex mixes z * recovered_1 + (1 - z) * recovered_2, z in
\* [0, 1], are exactly the members v + z * ns, z in [z_lo, z_hi], of the
\* solution family: every mix is non-negative and has the observations as
\* its margins, and every non-negative member of the family is a mix.
C28_SameSearchSet ==
  AfterInterval =>
    /\ Mixes = {Family(v, z, ns) : z \in ZLo(v, ns)..ZHi(v, ns)}
    /\ Mix(recovered_1, recovered_2, 1, 1) = recovered_1
    /\ Mix(recovered_1, recovered_2, 0, 1) = recovered_2
    /\ \A u \in Mixes : NonNegative(u) /\ Apply(M, u) = estimated_proportions
    /\ \A z \in (ZLo(v, ns) - MaxZ)..(ZHi(v, ns) + MaxZ) :
         NonNegative(Family(v, z, ns)) => Family(v, z, ns) \in Mixes
    /\ Done => maxent_dist \in Mixes

C28_Witness ==
  /\ Done
  /\ HasNegative(v)
  /\ Cardinality(Mixes) >= 4
  /\ maxent_dist \in Mixes
  /\ maxent_dist \notin {recovered_1, recovered_2}
  /\ Mixes = {Family(v, z, ns) : z \in ZLo(v, ns)..ZHi(v, ns)}

\* C25: for every model the entries of s_vec sum to zero (the alternating
\* signs annihilate the constant and the linear terms), and when the model
\* has no x1 x2 term s_vec equals p_vec[1:4] + p_vec[5:8] entry by entry.
C25_SVecSumsToZero ==
  model # NoModel =>
    /\ LogSum(s_vec(model), 4) = LogZero
    /\ (model.e12 = <<1, 1>> /\ Positive(detailed_frame)) =>
         s_vec(model) = p_comb(p_vec(detailed_frame, den))

C25_Witness ==
  /\ model # NoModel
  /\ model.e12 = <<1, 1>>
  /\ model.dep = 2
  /\ model.e1 # <<1, 1>>
  /\ model.e2 # <<1, 1>>
  /\ Positive(detailed_frame)
  /\ s_vec(model)[2] # LogZero
  /\ s_vec(model) = p_comb(p_vec(detailed_frame, den))

(***************************************************************************)
(* Properties of the popcount loop.                                        *)
(***************************************************************************)

\* C19: the criticised loop, entered with n = 1, never returns: the update
\* n ^ (n - 1) maps 1 to 1, so after any number of iterations n is still 1
\* and the loop is still running.
C19_NeverReturnsFromOne ==
  (body = "xor" /\ start = 1) =>
    /\ xor_update(n) = 1
    /\ n = 1
    /\ loop = "running"

C19_Witness ==
  /\ body = "xor"
  /\ start = 1
  /\ count >= 3
  /\ n = 1
  /\ loop = "running"

IsPowerOfTwo(x) == x >= 1 /\ popcount(x) = 1

\* C20: n & (n - 1) has exactly one bit fewer than n for every n >= 1 and is
\* 0 for every power of two; count + popcount(n) stays at popcount of the
\* starting value; the loop returns, after exactly popcount(start)
\* iterations, with count = popcount(start).
C20_ClearsLowestBit ==
  /\ [](body = "and" =>
          /\ count + popcount(n) = popcount(start)
          /\ n >= 1 => /\ popcount(and_update(n)) = popcount(n) - 1
                       /\ and_update(n) < n
                       /\ BitAnd(and_update(n), n) = and_update(n)
          /\ IsPowerOfTwo(n) => and_update(n) = 0
          /\ loop = "returned" => (n = 0 /\ count = popcount(start)))
  /\ (body = "and" /\ loop = "running") ~> (body = "and" /\ loop = "returned")

C20_Witness ==
  /\ body = "and"
  /\ loop = "returned"
  /\ popcount(start) >= 3
  /\ ~IsPowerOfTwo(start + 1)
  /\ count = popcount(start)

(***************************************************************************)
(* Properties of the sum loop.                                             *)
(***************************************************************************)

\* C21: for every n in 0..9 the value the double loop f returns equals the
\* fitted closed form n^3/3 - n/3 evaluated at n, and 3 divides n^3 - n, so
\* the closed form is a whole number.
C21_ClosedForm ==
  f_pc = "returned" =>
    /\ formula(f_n) = <<res, 1>>
    /\ (IPow(f_n, 3) - f_n) % 3 = 0
    /\ 3 * res = IPow(f_n, 3) - f_n

C21_Witness ==
  /\ f_pc = "returned"
  /\ f_n = MaxArg
  /\ res = 240
  /\ formula(f_n) = <<240, 1>>

(***************************************************************************)
(* Properties of the omitted variable notebook.                            *)
(***************************************************************************)

OmittedIsNice(rows) ==
  /\ wmean(rows, Col(rows, "omitted")) = <<0, 1>>
  /\ cov_wt(rows, Col(rows, "x"), Col(rows, "omitted")) = <<0, 1>>

\* C22: when omitted has weighted mean zero and zero weighted covariance
\* with x, the weighted fit of y_linear on x alone has the intercept c and
\* the x coefficient a of the linear equation, the same as the fit that
\* includes omitted, and the part b * omitted left out is weight-orthogonal
\* to the constant and to x.
C22_NoLinearBias ==
  (omit_pc \in {"fit_x", "y_probability"} /\ OmittedIsNice(d_pop)) =>
    /\ fit_full = <<<<linear_coef[1], 1>>, <<linear_coef[2], 1>>, <<linear_coef[3], 1>>>>
    /\ fit_x = <<fit_full[1], fit_full[2]>>
    /\ LET left_out == [i \in 1..4 |-> linear_coef[3] * d_pop[i].omitted]
       IN /\ WSum(d_pop, left_out, Ones(d_pop), 4) = <<0, 1>>
          /\ WSum(d_pop, left_out, Col(d_pop, "x"), 4) = <<0, 1>>

C22_Witness ==
  /\ omit_pc = "fit_x"
  /\ OmittedIsNice(d_pop)
  /\ x_frame.wt = <<1, 2>>
  /\ omitted_frame.wt = <<1, 2>>
  /\ linear_coef = <<1, 2, 0 - 1>>
  /\ fit_x = <<<<1, 1>>, <<2, 1>>>>

\* C26: splitting the population by outcome preserves the distribution of
\* the explanatory variables. The weights of d_logistic sum to 1; for every
\* (x, omitted) combination the weight of its TRUE row plus the weight of
\* its FALSE row is the combination's weight in d (0.25 for the notebook's
\* frames); so omitted has the same weighted mean in d_logistic as in d and
\* is mean zero and uncorrelated with x in d_logistic whenever it is in d.
C26_SplitPreservesExplanatory ==
  omit_pc = "d_logistic" =>
    /\ Len(d_logistic) = 8
    /\ SumWt(d_logistic, 8) = <<1, 1>>
    /\ \A i \in 1..4 :
         /\ d_logistic[i].y_observed /\ ~d_logistic[i + 4].y_observed
         /\ d_logistic[i].x = d_pop[i].x /\ d_logistic[i + 4].x = d_pop[i].x
         /\ d_logistic[i].omitted = d_pop[i].omitted
         /\ d_logistic[i + 4].omitted = d_pop[i].omitted
         /\ RatAdd(d_logistic[i].wt, d_logistic[i + 4].wt) = d_pop[i].wt
         /\ (x_frame.wt = <<1, 1>> /\ omitted_frame.wt = <<1, 1>>) => d_pop[i].wt = <<1, 4>>
    /\ wmean(d_logistic, Col(d_logistic, "omitted")) = wmean(d_pop, Col(d_pop, "omitted"))
    /\ wmean(d_logistic, Col(d_logistic, "x")) = wmean(d_pop, Col(d_pop, "x"))
    /\ OmittedIsNice(d_pop) => OmittedIsNice(d_logistic)

C26_Witness ==
  /\ omit_pc = "d_logistic"
  /\ x_frame.x = <<0 - 2, 1>>
  /\ omitted_frame.omitted = <<0 - 1, 1>>
  /\ \A i \in 1..4 : d_pop[i].wt = <<1, 4>>
  /\ \A i \in 1..8 : d_logistic[i].wt # <<1, 8>>
  /\ d_logistic[1].wt # d_logistic[2].wt
  /\ OmittedIsNice(d_logistic)

(***************************************************************************)
(* Further properties of the popcount loop.                                *)
(***************************************************************************)

\* C23: the invariant the criticised code would need fails. At n = 1 the
\* update n ^ (n - 1) does not have one bit fewer than n, and in the run
\* entered with n = 1 the sum count + popcount(n) grows with every
\* iteration instead of staying at popcount of the starting value.
C23_XorInvariantFails ==
  (body = "xor" /\ start = 1) =>
    /\ popcount(xor_update(n)) # popcount(n) - 1
    /\ popcount(n) = 1
    /\ count + popcount(n) = popcount(start) + count
    /\ count >= 1 => count + popcount(n) # popcount(start)

C23_Witness ==
  /\ body = "xor"
  /\ start = 1
  /\ count = 2
  /\ count + popcount(n) = 3
  /\ popcount(start) = 1

\* the index of the lowest set bit of x >= 1
RECURSIVE LowestSetBit(_)
LowestSetBit(x) == IF x % 2 = 1 THEN 0 ELSE 1 + LowestSetBit(x \div 2)

\* C24: entered with any n >= 1 the xor loop never returns: after one
\* iteration n is all ones up to the lowest set bit of the starting value
\* (so odd), after two iterations n is 1, 1 is a fixed point of the update,
\* and n is never 0.
C24_XorNeverTerminates ==
  (body = "xor" /\ start >= 1) =>
    /\ loop = "running"
    /\ n >= 1
    /\ count = 1 => (n = IPow(2, LowestSetBit(start) + 1) - 1 /\ n % 2 = 1)
    /\ count >= 2 => n = 1
    /\ n = 1 => xor_update(n) = 1

C24_Witness ==
  /\ body = "xor"
  /\ start = 12
  /\ count >= 3
  /\ n = 1
  /\ loop = "running"

====
